---------------------------- MODULE Spec2Model ----------------------------
(***************************************************************************)
(* A model of the fastapi_ecommerce backend: the auth router               *)
(* (src/app/routers/auth.py) and the product router                        *)
(* (src/app/routers/products.py) over one relational store                 *)
(* (src/app/backend/db_depends.py).                                        *)
(*                                                                         *)
(* Every request runs in its own AsyncSession.  A handler is cut into      *)
(* steps at the awaits between which another request can change the        *)
(* store: a step is one action.  The store is SQLite: a writing            *)
(* transaction holds the database's write lock from its first INSERT or    *)
(* UPDATE until COMMIT or ROLLBACK, and readers see committed rows only.   *)
(***************************************************************************)
EXTENDS Integers, Sequences, FiniteSets, TLC

VARIABLES
    users,      \* the committed user table, a sequence of rows ordered by id
    products,   \* the committed product table, a sequence of rows ordered by id
    dbLock,     \* the client whose transaction holds the write lock, or NoClient
    now,        \* the wall clock, in ticks of 1/TicksPerSec second
    issued,     \* every token login has handed out, with the row it was made from
    req,        \* per client: the request in flight between two awaits
    out         \* the response of the handler that returned last

vars == <<users, products, dbLock, now, issued, req, out>>

-----------------------------------------------------------------------------
(* Inputs of the requests.                                                 *)

Clients == {"c1", "c2"}
NoClient == "none"

Usernames == {"alice", "bob"}
Passwords == {"pw1", "pw2"}
Salts == {"s1", "s2"}
\* The usernames a login is tried with: the registered ones and a stranger.
LoginNames == Usernames \cup {"mallory"}

\* The registration bodies: a fresh user, a second fresh user, one that
\* reuses only a username and one that reuses only an email.
RegBodies ==
    { [username |-> "alice", email |-> "a@x.com", password |-> "pw1"],
      [username |-> "bob",   email |-> "b@x.com", password |-> "pw2"],
      [username |-> "alice", email |-> "b@x.com", password |-> "pw2"],
      [username |-> "bob",   email |-> "a@x.com", password |-> "pw1"] }

\* The tokens followed at a time: login issues no more than these.
MaxTokens == 2
\* The clock is followed tick by tick up to MaxEarly, and again from one
\* tick before the first possible expiry to MaxLate ticks after it.
MaxEarly == 2
MaxLate == 3

Idle == [op |-> "idle"]
\* A request that is answered in one step needs a client that has no other
\* request in flight.
FreeSlot == {c \in Clients : req[c] = Idle} # {}
NoResponse == [op |-> "none", status |-> 0]

-----------------------------------------------------------------------------
(* passlib's CryptContext(schemes=['bcrypt']): a salted one-way digest,    *)
(* as a symbolic term.  The digest is made from the plaintext and a salt   *)
(* drawn per call; verify recomputes it with the salt stored in the hash.  *)

bcrypt_hash(password, salt) ==
    [salt |-> salt, digest |-> <<"bcrypt", salt, password>>]

bcrypt_verify(password, hashed) ==
    hashed.digest = <<"bcrypt", hashed.salt, password>>

-----------------------------------------------------------------------------
(* The user table.                                                         *)

UserIds == 1 .. Len(users)

\* The UNIQUE constraints of the user table: username and email.
UserUniqueViolation(table, row) ==
    \E i \in 1 .. Len(table) :
        \/ table[i].username = row.username
        \/ table[i].email = row.email

\* select(User).where(User.username == username), db.scalar: the first row
\* or None (0 here).
SelectUserByName(table, username) ==
    IF \E i \in 1 .. Len(table) : table[i].username = username
    THEN CHOOSE i \in 1 .. Len(table) :
            /\ table[i].username = username
            /\ \A j \in 1 .. (i - 1) : table[j].username # username
    ELSE 0

\* The row create_user inserts: the hash of the password and the four
\* flags the handler sets.
NewUserRow(id, body, salt) ==
    [ id |-> id,
      username |-> body.username,
      email |-> body.email,
      hashed_password |-> bcrypt_hash(body.password, salt),
      is_active |-> TRUE,
      is_admin |-> FALSE,
      is_supplier |-> FALSE,
      is_customer |-> TRUE ]

Respond(op, status) == [op |-> op, status |-> status]

-----------------------------------------------------------------------------
(* POST /auth/ : create_user.                                              *)

\* create_user with the "raise HTTPException(400)" of the IntegrityError
\* branch left out: the rollback happens and the handler falls through to
\* its return.
create_user_execute_swallow(c, body, salt) ==
    /\ req[c] = Idle
    /\ dbLock = NoClient
    /\ LET row == NewUserRow(Len(users) + 1, body, salt) IN
       IF UserUniqueViolation(users, row)
       THEN /\ out' = Respond("create_user", 201)
            /\ UNCHANGED <<req, dbLock>>
       ELSE /\ req' = [req EXCEPT ![c] = [op |-> "create_user", pc |-> "commit",
                                            row |-> row]]
            /\ dbLock' = c
            /\ UNCHANGED out
    /\ UNCHANGED <<users, products, now, issued>>

\* db.execute(insert(User)...): the INSERT takes the write lock and checks
\* the UNIQUE constraints.  An IntegrityError rolls back and answers 400;
\* otherwise the row is pending in this session until the commit.
create_user_execute(c, body, salt) ==
    /\ req[c] = Idle
    /\ dbLock = NoClient
    /\ LET row == NewUserRow(Len(users) + 1, body, salt) IN
       IF UserUniqueViolation(users, row)
       THEN /\ out' = Respond("create_user", 400)
            /\ UNCHANGED <<req, dbLock>>
       ELSE /\ req' = [req EXCEPT ![c] = [op |-> "create_user", pc |-> "commit",
                                            row |-> row]]
            /\ dbLock' = c
            /\ UNCHANGED out
    /\ UNCHANGED <<users, products, now, issued>>

\* db.commit(): the pending row becomes durable and visible, and the
\* handler returns 201.
create_user_commit(c) ==
    /\ req[c].op = "create_user"
    /\ req[c].pc = "commit"
    /\ users' = Append(users, req[c].row)
    /\ dbLock' = NoClient
    /\ req' = [req EXCEPT ![c] = Idle]
    /\ out' = Respond("create_user", 201)
    /\ UNCHANGED <<products, now, issued>>

-----------------------------------------------------------------------------
(* python-jose: jwt.encode and jwt.decode with HS256, as symbolic terms.   *)
(* A signature is the term made from the key and the signed payload; only  *)
(* the holder of the key can make it.                                      *)

SECRET_KEY == "50a929ea9e25d8eeca854fe8234328d3ce14b92dec1e04205fcbc3f1526b5acf"
ALGORITHM == "HS256"

\* The resolution of the clock: ticks per second.
TicksPerSec == 3

\* timedelta(minutes=20), the expires_delta login passes.
ACCESS_TOKEN_EXPIRE_MINUTES == 20
ExpiresDelta == ACCESS_TOKEN_EXPIRE_MINUTES * 60 * TicksPerSec

HS256(key, payload) == <<"hmac-sha256", key, payload>>

\* jwt.encode: a datetime 'exp' is converted with timegm(utctimetuple()),
\* which drops the fraction of the second; then the payload is signed.
jwt_encode(claims, key, algorithm) ==
    LET payload == [claims EXCEPT !.exp = claims.exp \div TicksPerSec] IN
    [alg |-> algorithm, payload |-> payload, sig |-> HS256(key, payload)]

JWTError == [ok |-> FALSE]

\* jwt.decode with options={"verify_signature": False}: the payload is
\* returned as it is read, the expiry still checked.
jwt_decode_unverified(token, key, algorithms, t) ==
    IF token.payload.exp < t \div TicksPerSec THEN JWTError
    ELSE [ok |-> TRUE, payload |-> token.payload]

\* jwt.decode: the header's algorithm must be an allowed one, the signature
\* must verify, and then the 'exp' claim is validated against the current
\* time in whole seconds (ExpiredSignatureError is a JWTError).
jwt_decode(token, key, algorithms, t) ==
    IF token.alg \notin algorithms THEN JWTError
    ELSE IF token.sig # HS256(key, token.payload) THEN JWTError
    ELSE IF token.payload.exp < t \div TicksPerSec THEN JWTError
    ELSE [ok |-> TRUE, payload |-> token.payload]

create_access_token(username, user_id, expires_delta, is_admin, is_supplier, is_customer, t) ==
    LET encode == [ sub |-> username,
                    id |-> user_id,
                    is_admin |-> is_admin,
                    is_supplier |-> is_supplier,
                    is_customer |-> is_customer,
                    exp |-> t + expires_delta ]
    IN  jwt_encode(encode, SECRET_KEY, ALGORITHM)

InvalidToken == [status |-> 401, detail |-> "Invalid token"]
ExpiredToken == [status |-> 403, detail |-> "Token expired"]

\* get_current_user that loads the role flags of the token's user from the
\* user table instead of returning those of the token.
get_current_user_from_store(token, t) ==
    LET d == jwt_decode(token, SECRET_KEY, {ALGORITHM}, t) IN
    IF ~d.ok THEN InvalidToken
    ELSE IF d.payload.sub = "" \/ d.payload.id = 0 THEN InvalidToken
    ELSE IF t > d.payload.exp * TicksPerSec THEN ExpiredToken
    ELSE [ status |-> 200,
           user |-> [ username |-> d.payload.sub,
                      id |-> d.payload.id,
                      is_admin |-> users[d.payload.id].is_admin,
                      is_supplier |-> users[d.payload.id].is_supplier,
                      is_customer |-> users[d.payload.id].is_customer ] ]

\* get_current_user at clock t: the claims, or the error it raises.
get_current_user(token, t) ==
    LET d == jwt_decode(token, SECRET_KEY, {ALGORITHM}, t) IN
    IF ~d.ok THEN InvalidToken
    ELSE IF d.payload.sub = "" \/ d.payload.id = 0 THEN InvalidToken
    ELSE IF t > d.payload.exp * TicksPerSec THEN ExpiredToken
    ELSE [ status |-> 200,
           user |-> [ username |-> d.payload.sub,
                      id |-> d.payload.id,
                      is_admin |-> d.payload.is_admin,
                      is_supplier |-> d.payload.is_supplier,
                      is_customer |-> d.payload.is_customer ] ]

-----------------------------------------------------------------------------
(* POST /auth/token : authenticate_user and login.                         *)

\* authenticate_user without its is_active test.
authenticate_user_no_active(table, username, password) ==
    LET i == SelectUserByName(table, username) IN
    IF i = 0 THEN [status |-> 401, detail |-> "Invalid username"]
    ELSE IF ~bcrypt_verify(password, table[i].hashed_password)
         THEN [status |-> 401, detail |-> "Invalid password"]
    ELSE [status |-> 200, user |-> table[i]]

authenticate_user(table, username, password) ==
    LET i == SelectUserByName(table, username) IN
    IF i = 0 THEN [status |-> 401, detail |-> "Invalid username"]
    ELSE IF ~bcrypt_verify(password, table[i].hashed_password)
         THEN [status |-> 401, detail |-> "Invalid password"]
    ELSE IF ~table[i].is_active
         THEN [status |-> 403, detail |-> "Inactive user"]
    ELSE [status |-> 200, user |-> table[i]]

\* One select, then the token is computed: a single step.
login(username, password) ==
    /\ FreeSlot
    /\ LET a == authenticate_user(users, username, password) IN
       IF a.status # 200
       THEN /\ out' = [op |-> "login", status |-> a.status,
                       detail |-> a.detail]
            /\ UNCHANGED issued
       ELSE LET token == create_access_token(a.user.username, a.user.id,
                             ExpiresDelta, a.user.is_admin, a.user.is_supplier,
                             a.user.is_customer, now)
                entry == [token |-> token, user |-> a.user, at |-> now]
            IN  /\ entry \in issued \/ Cardinality(issued) < MaxTokens
                /\ out' = [op |-> "login", status |-> 200,
                           access_token |-> token]
                /\ issued' = issued \cup {entry}
    /\ UNCHANGED <<users, products, dbLock, now, req>>

-----------------------------------------------------------------------------
(* The store's administration, outside these routers: a row's flags are    *)
(* changed in place (there is no endpoint for it).                         *)

Flags == {"is_active", "is_admin", "is_supplier"}

SetUserFlag(id, flag, value) ==
    /\ dbLock = NoClient
    /\ id \in UserIds
    /\ users[id][flag] # value
    /\ users' = [users EXCEPT ![id][flag] = value]
    /\ UNCHANGED <<products, dbLock, now, issued, req, out>>

-----------------------------------------------------------------------------
(* GET /auth/read_current_user, and time.                                  *)

read_current_user(token) ==
    /\ FreeSlot
    /\ LET r == get_current_user(token, now) IN
       out' = IF r.status = 200
              THEN [op |-> "read_current_user", status |-> 200, user |-> r.user]
              ELSE [op |-> "read_current_user", status |-> r.status,
                    detail |-> r.detail]
    /\ UNCHANGED <<users, products, dbLock, now, issued, req>>

LongWait == ExpiresDelta - 1

\* The clock advances by one tick.
Tick ==
    /\ now < MaxEarly \/ now >= LongWait
    /\ now < ExpiresDelta + MaxLate
    /\ now' = now + 1
    /\ UNCHANGED <<users, products, dbLock, issued, req, out>>

\* Nothing happens for almost the lifetime of a token.
Wait ==
    /\ now <= MaxEarly
    /\ now' = now + LongWait
    /\ UNCHANGED <<users, products, dbLock, issued, req, out>>

IssuedTokens == {k.token : k \in issued}

\* What a client without the key can make of an issued token: one claim
\* altered (the signature kept, taken from another issued token, or made
\* with a key of the client's own), the signature alone replaced, or the
\* header switched to the unsigned algorithm.
AlteredPayloads(p) ==
    {[p EXCEPT !.sub = n] : n \in (LoginNames \cup {""}) \ {p.sub}}
    \cup {[p EXCEPT !.id = i] : i \in (0 .. Len(users) + 1) \ {p.id}}
    \cup {[p EXCEPT !.is_admin = ~p.is_admin],
          [p EXCEPT !.is_supplier = ~p.is_supplier],
          [p EXCEPT !.is_customer = ~p.is_customer],
          [p EXCEPT !.exp = p.exp + ACCESS_TOKEN_EXPIRE_MINUTES * 60],
          [p EXCEPT !.exp = p.exp - 1]}

Forgeries ==
    LET Sigs(q) == {k.sig : k \in IssuedTokens}
                     \cup {HS256("attacker-key", q), <<"unsigned">>}
        Variants(t) ==
            UNION { {[alg |-> a, payload |-> q, sig |-> g] :
                        a \in {ALGORITHM, "none"}, g \in Sigs(q)}
                    : q \in AlteredPayloads(t.payload) \cup {t.payload} }
    IN  UNION {Variants(t) : t \in IssuedTokens} \ IssuedTokens

\* The forgeries that differ from an issued token in one part only: one
\* claim, the signature, or the algorithm of the header.
Tamperings ==
    LET OnePart(t) ==
            {[t EXCEPT !.payload = q] : q \in AlteredPayloads(t.payload)}
            \cup {[t EXCEPT !.sig = HS256("attacker-key", t.payload)],
                  [t EXCEPT !.sig = <<"unsigned">>],
                  [t EXCEPT !.alg = "none"]}
    IN  UNION {OnePart(t) : t \in IssuedTokens} \ IssuedTokens

-----------------------------------------------------------------------------
(* The product table and the category table.                               *)

ProductNames == {"Widget", "widget", "Red Hat"}

\* python-slugify on the names used here: lower case, runs of other
\* characters turned into one hyphen.
slugify(name) ==
    CASE name = "Widget"  -> "widget"
      [] name = "widget"  -> "widget"
      [] name = "Red Hat" -> "red-hat"

\* The category table: a parent and one subcategory of it.  No router here
\* writes it.
Categories ==
    << [id |-> 1, slug |-> "tools", parent_id |-> 0],
       [id |-> 2, slug |-> "hand-tools", parent_id |-> 1] >>

CategorySlugs == {"tools", "hand-tools", "toys"}

\* The bodies of create and update requests (CreateProduct).
ProductBodies ==
    { [name |-> "Widget",  stock |-> 1, category_id |-> 1],
      [name |-> "widget",  stock |-> 0, category_id |-> 2],
      [name |-> "Red Hat", stock |-> 2, category_id |-> 2] }

ProductIds == 1 .. Len(products)
ProductSlugs == {slugify(n) : n \in ProductNames}

\* The UNIQUE constraint of the product table on slug: some row other
\* than the rows being written holds the slug.
ProductUniqueViolation(table, slug, written) ==
    \E i \in (1 .. Len(table)) \ written : table[i].slug = slug

\* db.scalar(select(Product).where(Product.slug == slug)): the first row
\* or None (0 here).
SelectProductBySlug(table, slug) ==
    IF \E i \in 1 .. Len(table) : table[i].slug = slug
    THEN CHOOSE i \in 1 .. Len(table) :
            /\ table[i].slug = slug
            /\ \A j \in 1 .. (i - 1) : table[j].slug # slug
    ELSE 0

\* The row create_product inserts; is_active is the column's default.
NewProductRow(id, body, slug, supplier_id) ==
    [ id |-> id,
      name |-> body.name,
      slug |-> slug,
      stock |-> body.stock,
      category_id |-> body.category_id,
      supplier_id |-> supplier_id,
      is_active |-> TRUE ]

\* The rows (by index) of a table that a select's WHERE keeps, in table
\* order, from row i on.
RECURSIVE Matching(_, _, _)
Matching(table, kept, i) ==
    IF i > Len(table) THEN << >>
    ELSE IF i \in kept THEN <<i>> \o Matching(table, kept, i + 1)
    ELSE Matching(table, kept, i + 1)

AuthError(r) == [op |-> "auth", status |-> r.status]

-----------------------------------------------------------------------------
(* POST /products/create : create_product.                                 *)

\* The dependency get_current_user, the role test and the select for an
\* existing slug.
create_product_check(c, token, body) ==
    /\ req[c] = Idle
    /\ LET r == get_current_user(token, now) IN
       IF r.status # 200
       THEN out' = AuthError(r) /\ UNCHANGED req
       ELSE IF r.user.is_supplier \/ r.user.is_admin
       THEN LET slug == slugify(body.name) IN
            IF SelectProductBySlug(products, slug) # 0
            THEN out' = Respond("create_product", 400) /\ UNCHANGED req
            ELSE /\ req' = [req EXCEPT ![c] =
                               [op |-> "create_product", pc |-> "insert",
                                body |-> body, slug |-> slug,
                                user_id |-> r.user.id]]
                 /\ UNCHANGED out
       ELSE out' = Respond("create_product", 403) /\ UNCHANGED req
    /\ UNCHANGED <<users, products, dbLock, now, issued>>

\* db.execute(insert(Product)...) and db.commit().  The handler catches
\* nothing: an IntegrityError of the insert ends the request with 500.
create_product_insert(c) ==
    /\ req[c].op = "create_product"
    /\ dbLock = NoClient
    /\ IF ProductUniqueViolation(products, req[c].slug, {})
       THEN /\ out' = Respond("create_product", 500)
            /\ UNCHANGED products
       ELSE /\ products' = Append(products,
                              NewProductRow(Len(products) + 1, req[c].body,
                                            req[c].slug, req[c].user_id))
            /\ out' = Respond("create_product", 201)
    /\ req' = [req EXCEPT ![c] = Idle]
    /\ UNCHANGED <<users, dbLock, now, issued>>

-----------------------------------------------------------------------------
(* PUT /products/detail/{product_slug} : update_product.                   *)

\* The dependency and the select of the product by its slug.
update_product_select(c, token, product_slug, body) ==
    /\ req[c] = Idle
    /\ LET r == get_current_user(token, now)
           i == SelectProductBySlug(products, product_slug)
       IN
       IF r.status # 200
       THEN out' = AuthError(r) /\ UNCHANGED req
       ELSE IF i = 0
       THEN out' = Respond("update_product", 404) /\ UNCHANGED req
       ELSE /\ req' = [req EXCEPT ![c] =
                          [op |-> "update_product", pc |-> "check",
                           product_slug |-> product_slug, body |-> body,
                           user |-> r.user,
                           supplier_id |-> products[i].supplier_id]]
            /\ UNCHANGED out
    /\ UNCHANGED <<users, products, dbLock, now, issued>>

\* The select for a product that holds the new slug, then the test of the
\* caller against the product read before.
update_product_check(c) ==
    /\ req[c].op = "update_product"
    /\ req[c].pc = "check"
    /\ LET new_slug == slugify(req[c].body.name) IN
       IF /\ new_slug # req[c].product_slug
          /\ SelectProductBySlug(products, new_slug) # 0
       THEN /\ out' = Respond("update_product", 400)
            /\ req' = [req EXCEPT ![c] = Idle]
       ELSE IF req[c].user.id = req[c].supplier_id \/ req[c].user.is_admin
       THEN /\ req' = [req EXCEPT ![c] =
                          [op |-> "update_product", pc |-> "write",
                           product_slug |-> req[c].product_slug,
                           body |-> req[c].body]]
            /\ UNCHANGED out
       ELSE /\ out' = Respond("update_product", 403)
            /\ req' = [req EXCEPT ![c] = Idle]
    /\ UNCHANGED <<users, products, dbLock, now, issued>>

\* update(Product).where(Product.slug == product_slug).values(...) and
\* db.commit(): every row that holds the slug now is rewritten; no row may
\* hold it any more.  An IntegrityError ends the request with 500.
update_product_write(c) ==
    /\ req[c].op = "update_product"
    /\ req[c].pc = "write"
    /\ dbLock = NoClient
    /\ LET new_slug == slugify(req[c].body.name)
           hit == {i \in ProductIds : products[i].slug = req[c].product_slug}
       IN
       IF hit # {} /\ (Cardinality(hit) > 1
                        \/ ProductUniqueViolation(products, new_slug, hit))
       THEN /\ out' = Respond("update_product", 500)
            /\ UNCHANGED products
       ELSE /\ products' =
                  [i \in ProductIds |->
                      IF i \in hit
                      THEN [products[i] EXCEPT
                               !.name = req[c].body.name,
                               !.stock = req[c].body.stock,
                               !.category_id = req[c].body.category_id,
                               !.slug = new_slug]
                      ELSE products[i]]
            /\ out' = Respond("update_product", 200)
    /\ req' = [req EXCEPT ![c] = Idle]
    /\ UNCHANGED <<users, dbLock, now, issued>>

-----------------------------------------------------------------------------
(* DELETE /products/delete/{product_id} : delete_product.                  *)

\* The dependency, the select of the product by id and the test of the
\* caller.
delete_product_select(c, token, product_id) ==
    /\ req[c] = Idle
    /\ LET r == get_current_user(token, now) IN
       IF r.status # 200
       THEN out' = AuthError(r) /\ UNCHANGED req
       ELSE IF product_id \notin ProductIds
       THEN out' = Respond("delete_product", 404) /\ UNCHANGED req
       ELSE IF r.user.id = products[product_id].supplier_id \/ r.user.is_admin
       THEN /\ req' = [req EXCEPT ![c] =
                          [op |-> "delete_product", pc |-> "write",
                           product_id |-> product_id]]
            /\ UNCHANGED out
       ELSE out' = Respond("delete_product", 403) /\ UNCHANGED req
    /\ UNCHANGED <<users, products, dbLock, now, issued>>

\* delete_product with delete(Product).where(Product.id == product_id):
\* the row is removed.
delete_product_write_hard(c) ==
    /\ req[c].op = "delete_product"
    /\ dbLock = NoClient
    /\ products' = SelectSeq(products,
                             LAMBDA row : row.id # req[c].product_id)
    /\ out' = Respond("delete_product", 200)
    /\ req' = [req EXCEPT ![c] = Idle]
    /\ UNCHANGED <<users, dbLock, now, issued>>

\* update(Product).where(Product.id == product_id).values(is_active=False)
\* and db.commit().
delete_product_write(c) ==
    /\ req[c].op = "delete_product"
    /\ dbLock = NoClient
    /\ products' = [i \in ProductIds |->
                       IF products[i].id = req[c].product_id
                       THEN [products[i] EXCEPT !.is_active = FALSE]
                       ELSE products[i]]
    /\ out' = Respond("delete_product", 200)
    /\ req' = [req EXCEPT ![c] = Idle]
    /\ UNCHANGED <<users, dbLock, now, issued>>

-----------------------------------------------------------------------------
(* The read endpoints.  A body is the sequence of the ids of the rows      *)
(* returned.                                                               *)

Listed(row) == row.is_active /\ row.stock > 0

\* GET /products/ : the rows are fetched with products.all() for the test;
\* the result is then exhausted, and the products.all() that is returned
\* is the empty list.
all_products_response(table) ==
    LET first == Matching(table, {i \in 1 .. Len(table) : Listed(table[i])}, 1)
        second == << >>
    IN  IF first = << >> THEN [status |-> 404]
        ELSE [status |-> 200, body |-> second]

\* GET /products/{category_slug}
product_by_category_response(table, category_slug) ==
    LET cats == {i \in 1 .. Len(Categories) : Categories[i].slug = category_slug}
    IN  IF cats = {} THEN [status |-> 404]
        ELSE LET category == Categories[CHOOSE i \in cats : TRUE]
                 categories_ids ==
                     {category.id} \cup
                     {Categories[i].id : i \in
                        {j \in 1 .. Len(Categories) :
                            Categories[j].parent_id = category.id}}
                 InCategory(row) ==
                     row.category_id \in categories_ids /\ Listed(row)
             IN  [status |-> 200,
                  body |-> Matching(table, {i \in 1 .. Len(table) :
                                               InCategory(table[i])}, 1)]

\* GET /products/detail/{product_slug}
product_detail_response(table, product_slug) ==
    LET Wanted(row) == row.slug = product_slug /\ Listed(row)
        found == Matching(table, {i \in 1 .. Len(table) : Wanted(table[i])}, 1)
    IN  IF found = << >> THEN [status |-> 404]
        ELSE [status |-> 200, body |-> <<found[1]>>]

GetResponse(op, r) ==
    IF r.status = 200 THEN [op |-> op, status |-> 200, body |-> r.body]
    ELSE [op |-> op, status |-> r.status]

all_products ==
    /\ FreeSlot
    /\ out' = GetResponse("all_products", all_products_response(products))
    /\ UNCHANGED <<users, products, dbLock, now, issued, req>>

product_by_category(category_slug) ==
    /\ FreeSlot
    /\ out' = GetResponse("product_by_category",
                          product_by_category_response(products, category_slug))
    /\ UNCHANGED <<users, products, dbLock, now, issued, req>>

product_detail(product_slug) ==
    /\ FreeSlot
    /\ out' = GetResponse("product_detail",
                          product_detail_response(products, product_slug))
    /\ UNCHANGED <<users, products, dbLock, now, issued, req>>

-----------------------------------------------------------------------------

Init ==
    /\ users = << >>
    /\ products = << >>
    /\ dbLock = NoClient
    /\ now = 0
    /\ issued = {}
    /\ req = [c \in Clients |-> Idle]
    /\ out = NoResponse

NextAuth ==
    \/ \E c \in Clients, body \in RegBodies, salt \in Salts :
          create_user_execute(c, body, salt)
    \/ \E c \in Clients : create_user_commit(c)
    \/ \E u \in LoginNames, p \in Passwords : login(u, p)
    \/ \E id \in UserIds : SetUserFlag(id, "is_active", ~users[id].is_active)

SpecAuth == Init /\ [][NextAuth]_vars

\* The store after alice and bob have registered and the administration
\* has made alice a supplier and bob an admin.
SeededUsers ==
    << [NewUserRow(1, [username |-> "alice", email |-> "a@x.com",
                       password |-> "pw1"], "s1")
           EXCEPT !.is_supplier = TRUE],
       [NewUserRow(2, [username |-> "bob", email |-> "b@x.com",
                       password |-> "pw2"], "s2")
           EXCEPT !.is_admin = TRUE] >>

TokenOf(user, t) ==
    create_access_token(user.username, user.id, ExpiresDelta, user.is_admin,
                        user.is_supplier, user.is_customer, t)

Credentials == {<<"alice", "pw1">>, <<"bob", "pw2">>}

\* The catalog under concurrent requests: alice and bob have logged in.
InitCatalog ==
    /\ users = SeededUsers
    /\ products = << >>
    /\ dbLock = NoClient
    /\ now = 0
    /\ issued = {[token |-> TokenOf(SeededUsers[i], 0),
                  user |-> SeededUsers[i], at |-> 0] : i \in 1 .. 2}
    /\ req = [c \in Clients |-> Idle]
    /\ out = NoResponse

NextCatalog ==
    \/ \E c \in Clients, t \in IssuedTokens, body \in ProductBodies :
          create_product_check(c, t, body)
    \/ \E c \in Clients : create_product_insert(c)
    \/ \E c \in Clients, t \in IssuedTokens, slug \in ProductSlugs,
          body \in ProductBodies :
          update_product_select(c, t, slug, body)
    \/ \E c \in Clients : update_product_check(c)
    \/ \E c \in Clients : update_product_write(c)
    \/ \E c \in Clients, t \in IssuedTokens, id \in 1 .. Len(products) + 1 :
          delete_product_select(c, t, id)
    \/ \E c \in Clients : delete_product_write(c)
    \/ all_products
    \/ \E slug \in CategorySlugs : product_by_category(slug)
    \/ \E slug \in ProductSlugs : product_detail(slug)

SpecCatalog == InitCatalog /\ [][NextCatalog]_vars

\* The catalog while the administration changes alice's supplier flag:
\* nobody has logged in yet.
InitRoles ==
    /\ users = SeededUsers
    /\ products = << >>
    /\ dbLock = NoClient
    /\ now = 0
    /\ issued = {}
    /\ req = [c \in Clients |-> Idle]
    /\ out = NoResponse

NextRoles ==
    \/ \E k \in Credentials : login(k[1], k[2])
    \/ SetUserFlag(1, "is_supplier", ~users[1].is_supplier)
    \/ \E c \in Clients, t \in IssuedTokens, body \in ProductBodies :
          create_product_check(c, t, body)
    \/ \E c \in Clients : create_product_insert(c)
    \/ \E c \in Clients, t \in IssuedTokens, slug \in ProductSlugs,
          body \in ProductBodies :
          update_product_select(c, t, slug, body)
    \/ \E c \in Clients : update_product_check(c)
    \/ \E c \in Clients : update_product_write(c)

SpecRoles == InitRoles /\ [][NextRoles]_vars

\* Tokens over time: alice and bob are registered and nobody holds a
\* token that has not expired.
NextToken ==
    \/ \E k \in Credentials : login(k[1], k[2])
    \/ Tick
    \/ Wait
    \/ \E t \in IssuedTokens \cup Tamperings : read_current_user(t)

SpecToken == InitRoles /\ [][NextToken]_vars

\* A token that outlives a change of its user's row: alice's product is in
\* the catalog, and the administration changes bob's admin flag.
InitStale ==
    /\ users = SeededUsers
    /\ products = << NewProductRow(1, [name |-> "Widget", stock |-> 1,
                                       category_id |-> 1], "widget", 1) >>
    /\ dbLock = NoClient
    /\ now = 0
    /\ issued = {}
    /\ req = [c \in Clients |-> Idle]
    /\ out = NoResponse

NextStale ==
    \/ \E k \in Credentials : login(k[1], k[2])
    \/ SetUserFlag(2, "is_admin", ~users[2].is_admin)
    \/ Wait
    \/ \E t \in IssuedTokens : read_current_user(t)
    \/ \E c \in Clients, t \in IssuedTokens, id \in 1 .. Len(products) + 1 :
          delete_product_select(c, t, id)
    \/ \E c \in Clients : delete_product_write(c)

SpecStale == InitStale /\ [][NextStale]_vars

-----------------------------------------------------------------------------
(* Registration and login.                                                 *)

RowsWith(username, email) ==
    {i \in UserIds : users[i].username = username \/ users[i].email = email}

UsersUnique ==
    \A i, j \in UserIds :
        i # j => /\ users[i].username # users[j].username
                 /\ users[i].email # users[j].email

\* A row of the table is whole: it has its id, a hash and the four flags,
\* and a row pending in an open transaction is not in the table.
UsersWhole ==
    /\ \A i \in UserIds :
          /\ users[i].id = i
          /\ DOMAIN users[i] = {"id", "username", "email", "hashed_password",
                                "is_active", "is_admin", "is_supplier",
                                "is_customer"}
    /\ \A c \in Clients :
          req[c].op = "create_user" =>
              /\ dbLock = c
              /\ RowsWith(req[c].row.username, req[c].row.email) = {}

\* The step of create_user that meets the constraints: a used username or
\* email answers 400 and writes nothing, an unused pair goes on to commit.
RegisterExecuteStep ==
    \A c \in Clients, body \in RegBodies, salt \in Salts :
        create_user_execute(c, body, salt) =>
            /\ users' = users
            /\ IF RowsWith(body.username, body.email) # {}
               THEN /\ out' = Respond("create_user", 400)
                    /\ req'[c] = Idle
               ELSE /\ req'[c].op = "create_user"
                    /\ out' = out

\* The committing step: exactly one row is added, with the flags of a new
\* customer, under a username and an email no row had, and the answer is 201.
RegisterCommitStep ==
    \A c \in Clients :
        create_user_commit(c) =>
            /\ out' = Respond("create_user", 201)
            /\ Len(users') = Len(users) + 1
            /\ SubSeq(users', 1, Len(users)) = users
            /\ LET row == users'[Len(users')] IN
                  /\ RowsWith(row.username, row.email) = {}
                  /\ row.is_active /\ ~row.is_admin /\ ~row.is_supplier
                  /\ row.is_customer
                  /\ row.username = req[c].row.username
                  /\ row.email = req[c].row.email

\* C1: in every interleaving of register calls, a call with an unused
\* username and email inserts exactly one row (is_active, not admin, not
\* supplier, customer) and answers 201; a call that reuses a username or an
\* email answers 400 and leaves the table unchanged; no state holds two rows
\* with the same username or the same email, or a partially inserted row.
C1_RegisterOnce ==
    /\ [](UsersUnique /\ UsersWhole)
    /\ [][RegisterExecuteStep /\ RegisterCommitStep]_vars

\* A second registration of a taken name was refused while the first row
\* is in the table and another registration is waiting to commit.
C1_Witness ==
    /\ Len(users) = 1
    /\ out.op = "create_user" /\ out.status = 400
    /\ \E c \in Clients : req[c].op = "create_user"

LoginOk(username, password) ==
    \E i \in UserIds :
        /\ users[i].username = username
        /\ bcrypt_verify(password, users[i].hashed_password)
        /\ users[i].is_active

LoginStep ==
    \A u \in LoginNames, p \in Passwords :
        login(u, p) =>
            LET known == \E i \in UserIds : users[i].username = u
                good  == \E i \in UserIds :
                            /\ users[i].username = u
                            /\ bcrypt_verify(p, users[i].hashed_password)
                active == \E i \in UserIds :
                            users[i].username = u /\ users[i].is_active
                token == "access_token" \in DOMAIN out'
            IN  /\ out'.op = "login"
                /\ token <=> LoginOk(u, p)
                /\ token <=> out'.status = 200
                /\ token => \E k \in issued' :
                                /\ k.token = out'.access_token
                                /\ k.user.username = u
                /\ ~token => issued' = issued
                /\ ~known => out'.status = 401
                /\ (known /\ ~good /\ active) => out'.status = 401
                /\ (good /\ ~active) => out'.status = 403
                /\ users' = users

\* C2: login returns a token if and only if a user with the username exists,
\* the stored hash verifies against the password and the user is active; an
\* unknown user gets 401, a wrong password 401, an inactive user 403, and
\* none of them a token.
C2_LoginIff == [][LoginStep]_vars

\* An inactive user was refused with 403 after a token had been issued.
C2_Witness ==
    /\ out.op = "login" /\ out.status = 403
    /\ issued # {}

-----------------------------------------------------------------------------
(* Tokens.                                                                 *)

\* The claims a token issued from a user row must carry.
ClaimsOf(user) ==
    [ username |-> user.username,
      id |-> user.id,
      is_admin |-> user.is_admin,
      is_supplier |-> user.is_supplier,
      is_customer |-> user.is_customer ]

\* C3: a token issued at time t with TTL d validates to its original claims
\* at every time strictly before t + d, and at every time at or after t + d
\* get_current_user returns ExpiredToken, an error other than InvalidToken.
C3_ExpiryAtIssuePlusTtl ==
    \A k \in issued :
        LET r == get_current_user(k.token, now) IN
        IF now < k.at + ExpiresDelta
        THEN r.status = 200 /\ r.user = ClaimsOf(k.user)
        ELSE r = ExpiredToken /\ r # InvalidToken

\* C4: every token that differs from the issued ones in a claim, the
\* expiry, the signature or the header is refused with InvalidToken,
\* whatever its claims and its expiry say.
C4_ForgeriesInvalid ==
    \A t \in Forgeries : get_current_user(t, now) = InvalidToken

\* A token with a forged admin flag and one with a forged later expiry
\* exist, the forged expiry is still ahead and the real one has passed, and
\* the last read_current_user was refused as invalid.
C4_Witness ==
    /\ out.op = "read_current_user" /\ out.status = 401
    /\ \E t \in IssuedTokens :
          /\ ~t.payload.is_admin
          /\ [t EXCEPT !.payload.is_admin = TRUE] \in Forgeries
          /\ t.payload.exp < now \div TicksPerSec
          /\ [t EXCEPT !.payload.exp = t.payload.exp
                          + ACCESS_TOKEN_EXPIRE_MINUTES * 60] \in Forgeries

\* The product a delete request names, read by the caller of a token.
MayDelete(t, id) ==
    t.payload.id = products[id].supplier_id \/ t.payload.is_admin

\* C10: a token keeps validating to the claims of its issuance at every
\* time before its expiry, whatever has since changed in the user table;
\* validating reads and changes nothing of the store; and delete_product
\* authorises on the id and the flags of the token, not on the user's row.
C10_TokenStateless ==
    /\ [](\A k \in issued :
             now < k.token.payload.exp * TicksPerSec =>
                 get_current_user(k.token, now) =
                     [status |-> 200, user |-> ClaimsOf(k.user)])
    /\ [][(out' # out /\ out'.op = "read_current_user") =>
             UNCHANGED <<users, products, dbLock, issued, req>>]_vars
    /\ [][\A c \in Clients : \A t \in IssuedTokens : \A id \in ProductIds :
             (delete_product_select(c, t, id)
                 /\ now < t.payload.exp * TicksPerSec) =>
                 /\ UNCHANGED <<users, products>>
                 /\ IF MayDelete(t, id)
                    THEN req'[c].op = "delete_product"
                    ELSE out' = Respond("delete_product", 403)]_vars

\* Bob's admin flag has been taken away after his login; almost a token's
\* lifetime later his token has deleted alice's product.
C10_Witness ==
    /\ out = Respond("delete_product", 200)
    /\ ~users[2].is_admin
    /\ products[1].supplier_id = 1 /\ ~products[1].is_active
    /\ now >= LongWait
    /\ \A k \in issued : k.user.id = 2 /\ k.user.is_admin

-----------------------------------------------------------------------------
(* The catalog.                                                            *)

Range(seq) == {seq[i] : i \in 1 .. Len(seq)}

TokenValid(t) == get_current_user(t, now).status = 200

\* C5: create_product and update_product change the product table only for
\* a caller whose claims have is_supplier or is_admin; a caller with
\* neither gets 403 from both and the table is unchanged.
C5_WritesNeedRole ==
    [][\A c \in Clients :
          /\ \A t \in IssuedTokens : \A body \in ProductBodies :
                (/\ create_product_check(c, t, body)
                 /\ TokenValid(t)
                 /\ ~t.payload.is_supplier /\ ~t.payload.is_admin) =>
                    /\ out' = Respond("create_product", 403)
                    /\ req'[c] = Idle
          /\ (/\ update_product_check(c)
              /\ ~req[c].user.is_supplier /\ ~req[c].user.is_admin) =>
                 /\ out' = Respond("update_product", 403)
                 /\ req'[c] = Idle]_vars

\* C6: update_product and delete_product on an existing product answer 403
\* to a caller who is neither its supplier nor an admin, whatever the body,
\* and change no row; for its supplier and for an admin they succeed with
\* 200.
C6_OwnerOrAdmin ==
    [][\A c \in Clients :
          /\ update_product_check(c) =>
                IF req[c].user.id = req[c].supplier_id \/ req[c].user.is_admin
                THEN req'[c].op = "update_product" /\ req'[c].pc = "write"
                ELSE /\ out' = Respond("update_product", 403)
                     /\ products' = products
          /\ update_product_write(c) => out' = Respond("update_product", 200)
          /\ \A t \in IssuedTokens : \A id \in ProductIds :
                (delete_product_select(c, t, id) /\ TokenValid(t)) =>
                    /\ products' = products
                    /\ IF MayDelete(t, id)
                       THEN req'[c].op = "delete_product"
                       ELSE out' = Respond("delete_product", 403)
          /\ delete_product_write(c) => out' = Respond("delete_product", 200)
      ]_vars

Hidden == {i \in ProductIds : ~products[i].is_active}

\* C7: a successful delete_product only sets that row's is_active to false:
\* the row stays and nothing else changes; from then on, whatever follows,
\* the row stays inactive, no listing returns it and the detail of its slug
\* is 404.
C7_SoftDelete ==
    /\ [](\A i \in Hidden :
             /\ LET r == all_products_response(products) IN
                   r.status = 200 => i \notin Range(r.body)
             /\ \A slug \in CategorySlugs :
                   LET r == product_by_category_response(products, slug) IN
                   r.status = 200 => i \notin Range(r.body)
             /\ product_detail_response(products, products[i].slug).status = 404)
    /\ [][\A c \in Clients :
             delete_product_write(c) =>
                 /\ out' = Respond("delete_product", 200)
                 /\ products' =
                       [i \in ProductIds |->
                           IF i = req[c].product_id
                           THEN [products[i] EXCEPT !.is_active = FALSE]
                           ELSE products[i]]]_vars
    /\ [][\A i \in Hidden :
             i \in 1 .. Len(products') /\ ~products'[i].is_active]_vars

\* A deleted product that is in stock is kept beside a listed one, and the
\* detail of a slug has just answered 404.
C7_Witness ==
    /\ out = [op |-> "product_detail", status |-> 404]
    /\ \E i \in Hidden : \E j \in ProductIds \ Hidden :
          /\ products[i].stock > 0
          /\ Listed(products[j])

ListedIds == {i \in ProductIds : Listed(products[i])}

ListedIn(slug) ==
    {i \in ListedIds :
        \E k \in 1 .. Len(Categories) :
            /\ Categories[k].id = products[i].category_id
            /\ \/ Categories[k].slug = slug
               \/ \E p \in 1 .. Len(Categories) :
                     /\ Categories[p].slug = slug
                     /\ Categories[k].parent_id = Categories[p].id}

\* C8: GET /products/ and GET /products/{category_slug} answer 200 with
\* exactly the active, in-stock products that match, a non-empty list, or
\* 404 when none matches: never 200 with an empty list, never a match left
\* out.
C8_ListingExact ==
    /\ LET r == all_products_response(products) IN
          IF ListedIds = {} THEN r.status = 404
          ELSE r.status = 200 /\ Range(r.body) = ListedIds
    /\ \A slug \in CategorySlugs :
          LET r == product_by_category_response(products, slug) IN
          IF ListedIn(slug) = {} THEN r.status = 404
          ELSE r.status = 200 /\ Range(r.body) = ListedIn(slug)

SlugsUnique ==
    \A i, j \in ProductIds : i # j => products[i].slug # products[j].slug

\* C9: under every interleaving of create_product and update_product no two
\* product rows have the same slug, and a request whose slug another
\* product holds when it writes fails with 400 and writes nothing.
C9_SlugsUniqueOr400 ==
    /\ []SlugsUnique
    /\ [][\A c \in Clients :
             /\ (/\ create_product_insert(c)
                 /\ \E i \in ProductIds : products[i].slug = req[c].slug) =>
                    /\ out' = Respond("create_product", 400)
                    /\ products' = products
             /\ (/\ update_product_write(c)
                 /\ \E i \in ProductIds :
                       /\ products[i].slug = slugify(req[c].body.name)
                       /\ products[i].slug # req[c].product_slug) =>
                    /\ out' = Respond("update_product", 400)
                    /\ products' = products]_vars

=============================================================================
